---- MODULE Spec2Model ----
(***************************************************************************)
(* Model of langchain_google_spanner/vector_store.py: SpannerVectorStore.   *)
(* One store instance over one Spanner table.  The storage engine and the   *)
(* embedding service are the collaborators the code calls; the operations   *)
(* add_texts, delete and similarity_search_with_score_by_vector are modelled *)
(* as whole handlers.                                                        *)
(***************************************************************************)
EXTENDS Integers, Sequences, FiniteSets, TLC

\* ------------------------------------------------------------------ bounds
MaxTexts == 3      \* longest texts / ids / metadatas list passed to a call
MaxBatch == 3      \* largest batch_size passed to add_texts
MaxK == 3          \* largest k passed to a search
MaxColumns == 2    \* longest list of extra columns of a table creation

\* ------------------------------------------------------- program constants
ID_COLUMN_NAME == "id"
CONTENT_COLUMN_NAME == "content"
EMBEDDING_COLUMN_NAME == "embedding"
ADDITIONAL_METADATA_COLUMN_NAME == "metadata"
DISTANCE_SELECT_QUERY_NAME == "distance"

\* ------------------------------------------------------------ Python values
\* Values are tagged so that values of different Python types compare unequal.
None == <<"null">>
Str(s) == <<"str", s>>
Vec(x) == <<"vec", x>>
JsonObject(d) == <<"json", d>>
IsJson(v) == v[1] = "json"

\* Optional[...] arguments
Nothing == <<"none", <<>>>>
Some(x) == <<"some", x>>
IsNone(o) == o[1] = "none"
Val(o) == o[2]

\* an Optional[str] column name that is None
NoColumn == "None"

\* dict: a function from keys to values
EmptyDict == [k \in {} |-> None]
Get(d, k) == IF k \in DOMAIN d THEN d[k] ELSE None
DictSet(d, k, v) == [x \in (DOMAIN d) \cup {k} |-> IF x = k THEN v ELSE d[x]]

\* Python truthiness of a value read from a row: None and an empty dict are
\* falsy (JsonObject is a dict subclass), every other value modelled is truthy.
Truthy(v) == /\ v # None
             /\ (IsJson(v) => DOMAIN v[2] # {})

Min(a, b) == IF a < b THEN a ELSE b
InSeq(x, s) == \E i \in 1..Len(s) : s[i] = x
IndexOf(x, s) == CHOOSE i \in 1..Len(s) : s[i] = x /\ \A j \in 1..(i-1) : s[j] # x
LastIndexOf(x, s) == CHOOSE i \in 1..Len(s) : s[i] = x /\ \A j \in (i+1)..Len(s) : s[j] # x
NoDuplicates(s) == \A i, j \in 1..Len(s) : s[i] = s[j] => i = j

RECURSIVE Concat(_)
Concat(ss) == IF ss = <<>> THEN <<>> ELSE Head(ss) \o Concat(Tail(ss))

\* ---------------------------------------------------------------- the table
\* column_type_map.keys(): the columns of the existing table, in schema order
TableSchema == <<"id", "content", "embedding", "a", "metadata">>

\* --------------------------------------------------------------- inputs
Text(i) == <<"t", i>>
Id(i) == <<"i", i>>
\* the embedding service: one vector (of one dimension) per text
Embed(text) == text[2]
embed_documents(texts) == [i \in 1..Len(texts) |-> Embed(texts[i])]

MetaList == << [a |-> Str("v1")],
               EmptyDict,
               [a |-> None],
               [a |-> Str("v2")] >>
\* the query embeddings the searches are called with
QueryEmbeddings == {1, 2}
TextsOf(n) == [i \in 1..n |-> Text(i)]
IdsOf(n) == [i \in 1..n |-> Id(i)]
MetasOf(n) == [i \in 1..n |-> MetaList[((i - 1) % Len(MetaList)) + 1]]

\* ---------------------------------------------------------------- __init__
DistanceStrategies == {"COSINE", "EUCLIDEIAN"}
Dialects == {"GOOGLE_STANDARD_SQL", "POSTGRESQL"}

\* datetime.timedelta(seconds=...), normalised to days and seconds
timedelta(seconds) == [days |-> seconds \div 86400, seconds |-> seconds % 86400]
TotalSeconds(d) == d.days * 86400 + d.seconds

QueryParameters(distance_strategy, staleness) ==
    [algorithm |-> "BRUTE_FORCE",
     distance_strategy |-> distance_strategy,
     staleness |-> staleness]

SpannerVectorStore_init(metadata_columns, ignore_metadata_columns, metadata_json_column, query_parameters, dialect) ==
    LET default_columns == <<ID_COLUMN_NAME, CONTENT_COLUMN_NAME, EMBEDDING_COLUMN_NAME>>
        ign == SelectSeq(TableSchema,
                         LAMBDA e : ~InSeq(e, Val(ignore_metadata_columns)))
        ignMeta == SelectSeq(ign, LAMBDA e : ~InSeq(e, default_columns))
        c1 == IF IsNone(metadata_columns) THEN default_columns
              ELSE default_columns \o Val(metadata_columns)
        m1 == IF IsNone(metadata_columns) THEN <<>> ELSE Val(metadata_columns)
        addJson == metadata_json_column # NoColumn /\ ~InSeq(metadata_json_column, c1)
        c2 == IF addJson THEN Append(c1, metadata_json_column) ELSE c1
        m2 == IF addJson THEN Append(m1, metadata_json_column) ELSE m1
    IN [table_name |-> "t",
        id_column |-> ID_COLUMN_NAME,
        content_column |-> CONTENT_COLUMN_NAME,
        embedding_column |-> EMBEDDING_COLUMN_NAME,
        metadata_json_column |-> metadata_json_column,
        query_parameters |-> query_parameters,
        dialect |-> dialect,
        metadata_columns |-> IF IsNone(ignore_metadata_columns) THEN m2 ELSE ignMeta,
        columns_to_insert |-> IF IsNone(ignore_metadata_columns) THEN c2 ELSE ign]

\* ------------------------------------------------------------ the storage
\* A stored row maps every column of the table to a value.  A column the
\* insert does not name gets its default: GENERATE_UUID() for the id column,
\* NULL for the others.
StoredRow(columns, values, uid) ==
    [c \in {TableSchema[i] : i \in 1..Len(TableSchema)} |->
        IF InSeq(c, columns) THEN values[LastIndexOf(c, columns)]
        ELSE IF c = ID_COLUMN_NAME THEN Str(<<"uuid", uid>>)
        ELSE None]

\* database.batch() / batch.insert(): all rows of the batch are committed
\* together, or none is.  The commit fails when the service fails (fail) or
\* when a primary key is already present.
BatchInsert(tbl, uid, columns, records, fail) ==
    LET new == [i \in 1..Len(records) |-> StoredRow(columns, records[i], uid + i)]
        keys == [i \in 1..Len(records) |-> new[i][ID_COLUMN_NAME]]
        conflict == \/ ~NoDuplicates(keys)
                    \/ \E i \in 1..Len(records) : \E r \in tbl : r[ID_COLUMN_NAME] = keys[i]
        ok == ~fail /\ ~conflict
    IN [ok |-> ok,
        table |-> IF ok THEN tbl \cup {new[i] : i \in 1..Len(records)} ELSE tbl,
        uuid |-> IF ok /\ ~InSeq(ID_COLUMN_NAME, columns) THEN uid + Len(records) ELSE uid]

\* --------------------------------------------------------------- add_texts
\* lines 426-427: with a JSON column configured the whole metadata dict is
\* stored under the JSON column's key of that same dict
RowMetadata(st, row_metadata) ==
    IF st.metadata_json_column # NoColumn
    THEN DictSet(row_metadata, st.metadata_json_column, JsonObject(row_metadata))
    ELSE row_metadata

\* lines 429-433: what one record appends to values_dict[column_name]
AppendedFor(st, column_name, row_metadata) ==
    LET n == Cardinality({j \in 1..Len(st.metadata_columns) :
                             st.metadata_columns[j] = column_name})
        v == IF Get(row_metadata, column_name) # None
             THEN row_metadata[column_name] ELSE None
    IN [k \in 1..n |-> v]

RECURSIVE Dedupe(_)
Dedupe(s) == IF s = <<>> THEN <<>>
             ELSE LET r == Dedupe(SubSeq(s, 1, Len(s) - 1))
                  IN IF InSeq(s[Len(s)], r) THEN r ELSE Append(r, s[Len(s)])

\* dict item assignment on an insertion-ordered dict
KeysAdd(keys, k) == IF InSeq(k, keys) THEN keys ELSE Append(keys, k)

\* lines 422-439: values_dict, as its keys in insertion order and its lists
ValuesDict(st, texts, metadatas, ids, embeds) ==
    LET k0 == Dedupe(st.metadata_columns)
        k1 == IF IsNone(ids) THEN k0 ELSE KeysAdd(k0, st.id_column)
        k2 == KeysAdd(k1, st.content_column)
        k3 == KeysAdd(k2, st.embedding_column)
        lists == [c \in {k3[i] : i \in 1..Len(k3)} |->
                   IF c = st.embedding_column
                     THEN [i \in 1..Len(embeds) |-> Vec(embeds[i])]
                   ELSE IF c = st.content_column
                     THEN [i \in 1..Len(texts) |-> Str(texts[i])]
                   ELSE IF c = st.id_column /\ ~IsNone(ids)
                     THEN [i \in 1..Len(Val(ids)) |-> Str(Val(ids)[i])]
                   ELSE Concat([i \in 1..Len(metadatas) |->
                                 AppendedFor(st, c, RowMetadata(st, metadatas[i]))])]
    IN [keys |-> k3, lists |-> lists]

\* the values taken in another order than the keys
Row_reversed(values_dict, i) ==
    [j \in 1..Len(values_dict.keys) |->
        values_dict.lists[values_dict.keys[Len(values_dict.keys) + 1 - j]][i]]

\* line 445: one row, its values in the order of the keys of values_dict
Row(values_dict, i) ==
    [j \in 1..Len(values_dict.keys) |-> values_dict.lists[values_dict.keys[j]][i]]

\* an off-by-one slice, rows_to_insert[i : i + batch_size + 1]
Batch_overlap(rows_to_insert, i, batch_size) ==
    SubSeq(rows_to_insert, i + 1, Min(i + batch_size + 1, Len(rows_to_insert)))

\* line 450: rows_to_insert[i : i + batch_size], i counted from 0
Batch(rows_to_insert, i, batch_size) ==
    SubSeq(rows_to_insert, i + 1, Min(i + batch_size, Len(rows_to_insert)))

\* lines 449-451: the loop over the chunks; acc carries the storage and the
\* log of the writes issued.  A failed write raises out of the loop.
RECURSIVE InsertLoop(_, _, _, _, _, _)
InsertLoop(i, rows_to_insert, columns_to_insert, batch_size, failAt, acc) ==
    IF i >= Len(rows_to_insert) \/ acc.failed THEN acc
    ELSE LET batch == Batch(rows_to_insert, i, batch_size)
             w == BatchInsert(acc.table, acc.uuid, columns_to_insert, batch,
                              failAt = Len(acc.writes))
         IN InsertLoop(i + batch_size, rows_to_insert, columns_to_insert,
                       batch_size, failAt,
                       [table |-> w.table,
                        uuid |-> w.uuid,
                        failed |-> ~w.ok,
                        writes |-> Append(acc.writes,
                                          [columns |-> columns_to_insert,
                                           values |-> batch,
                                           ok |-> w.ok])])

\* how a call ends: it returns a value or raises an exception of some type
Return(v) == [kind |-> "return", value |-> v]
Raise(e) == [kind |-> "raise", error |-> [type |-> e]]

\* only the ids are checked, the metadatas are not
LengthsOk_idsOnly(ids, metadatas, number_of_records) ==
    ~IsNone(ids) => Len(Val(ids)) = number_of_records

\* lines 411-415: the two assertions on the lengths
LengthsOk(ids, metadatas, number_of_records) ==
    /\ (~IsNone(ids) => Len(Val(ids)) = number_of_records)
    /\ (~IsNone(metadatas) => Len(Val(metadatas)) = number_of_records)

\* The whole handler.  failAt: the index of the write the service fails, or
\* -1 when the service fails none.  metadatas_after: the caller's metadatas
\* list as the call leaves it (line 427 assigns into the caller's dicts).
add_texts(st, tbl, uid, texts, metadatas, ids, batch_size, failAt) ==
    LET number_of_records == Len(texts)
        unchanged == [table |-> tbl, uuid |-> uid, embed_calls |-> 0, writes |-> <<>>,
                      metadatas_after |-> metadatas]
    IN IF number_of_records = 0
         THEN unchanged @@ [result |-> Return(<<>>)]
       ELSE IF ~LengthsOk(ids, metadatas, number_of_records)
         THEN unchanged @@ [result |-> Raise("AssertionError")]
       ELSE
         LET embeds == embed_documents(texts)
             metas == IF IsNone(metadatas)
                      THEN [i \in 1..Len(texts) |-> EmptyDict]
                      ELSE Val(metadatas)
             values_dict == ValuesDict(st, texts, metas, ids, embeds)
             after == IF IsNone(metadatas) THEN Nothing
                      ELSE Some([i \in 1..Len(metas) |-> RowMetadata(st, metas[i])])
             short == \E c \in DOMAIN values_dict.lists :
                          Len(values_dict.lists[c]) < number_of_records
             rows_to_insert == [i \in 1..number_of_records |-> Row(values_dict, i)]
             done == InsertLoop(0, rows_to_insert, values_dict.keys, batch_size, failAt,
                                [table |-> tbl, uuid |-> uid, failed |-> FALSE,
                                 writes |-> <<>>])
         IN IF short
            THEN [table |-> tbl, uuid |-> uid, embed_calls |-> 1, writes |-> <<>>,
                  metadatas_after |-> after,
                  result |-> Raise("IndexError")]
            ELSE [table |-> done.table,
                  uuid |-> done.uuid,
                  embed_calls |-> 1,
                  writes |-> done.writes,
                  metadatas_after |-> after,
                  result |-> IF done.failed THEN Raise("StorageError")
                             ELSE IF IsNone(ids) THEN Return(<<>>)
                             ELSE Return(Val(ids))]

\* ------------------------------------------------------------------ search
\* lines 106-124: getDistanceFunction of the dialect's semantics
getDistanceFunction(dialect, distance_strategy) ==
    IF dialect = "POSTGRESQL"
    THEN (IF distance_strategy = "COSINE" THEN "spanner.cosine_distance"
          ELSE "spanner.euclidean_distance")
    ELSE (IF distance_strategy = "COSINE" THEN "COSINE_DISTANCE"
          ELSE "EUCLIDEAN_DISTANCE")

\* lines 569-572: the placeholder and the name of the query parameter
Parameter(dialect) ==
    IF dialect = "POSTGRESQL" THEN <<"$1", "p1">>
    ELSE <<"@vector_embedding", "vector_embedding">>

\* a LIMIT one too large
KCount_plusOne(k) == k + 1

\* line 591: the LIMIT of the statement
KCount(k) == k

\* lines 574-594: the statement, clause by clause
SearchQuery(st, k, pre_filter) ==
    [select |-> st.columns_to_insert,
     distance |-> [function |-> getDistanceFunction(st.dialect,
                                    st.query_parameters.distance_strategy),
                   column |-> st.embedding_column,
                   placeholder |-> Parameter(st.dialect)[1],
                   alias |-> DISTANCE_SELECT_QUERY_NAME],
     from |-> st.table_name,
     where |-> IF ~IsNone(pre_filter) THEN Val(pre_filter) ELSE "1 = 1",
     order_by |-> "distance",
     limit |-> KCount(k)]

\* lines 575-576: column_order_map (a later duplicate wins in a dict
\* comprehension)
ColumnOrderMap(st) ==
    [c \in {st.columns_to_insert[i] : i \in 1..Len(st.columns_to_insert)}
           \cup {DISTANCE_SELECT_QUERY_NAME} |->
        IF c = DISTANCE_SELECT_QUERY_NAME THEN Len(st.columns_to_insert) + 1
        ELSE LastIndexOf(c, st.columns_to_insert)]

\* The engine's distance functions on vectors of one dimension.
Abs(x) == IF x < 0 THEN -x ELSE x
Distance(function, x, y) ==
    IF function \in {"COSINE_DISTANCE", "spanner.cosine_distance"}
    THEN (IF x * y > 0 THEN 0 ELSE 2)
    ELSE Abs(x - y)

\* The engine's evaluation of the WHERE clause on a stored row.
EvalFilter(where, r) ==
    IF where = "a IS NOT NULL" THEN r["a"] # None ELSE TRUE

\* snapshot.execute_sql: the rows of the snapshot that satisfy WHERE, each
\* projected on the select list followed by the distance, ordered by the
\* ORDER BY column when the statement has one (ties, and everything without
\* an ORDER BY, in the order the engine happens to produce: order), cut at
\* LIMIT.
Matching(query, params, snapshot) == {r \in snapshot : EvalFilter(query.where, r)}
RowDistance(query, params, r) ==
    Distance(query.distance.function, r[query.distance.column][2], params)
EngineOrders(query, params, snapshot) ==
    LET m == Matching(query, params, snapshot)
        n == Cardinality(m)
    IN {o \in [1..n -> m] :
          /\ \A i, j \in 1..n : o[i] = o[j] => i = j
          /\ (query.order_by = "distance" =>
                \A i \in 1..(n-1) : RowDistance(query, params, o[i])
                                      <= RowDistance(query, params, o[i+1]))}
execute_sql(query, params, order) ==
    LET n == Min(query.limit, Len(order))
    IN [i \in 1..n |->
         [j \in 1..(Len(query.select) + 1) |->
            IF j <= Len(query.select) THEN order[i][query.select[j]]
            ELSE RowDistance(query, params, order[i])]]

\* lines 609-616: the metadata of the Document built from one result row
RowToMetadata(st, column_order_map, row) ==
    IF /\ st.metadata_json_column # NoColumn
       /\ Truthy(row[column_order_map[st.metadata_json_column]])
    THEN row[column_order_map[st.metadata_json_column]][2]
    ELSE LET keys == {c \in {st.metadata_columns[i] : i \in 1..Len(st.metadata_columns)} :
                         row[column_order_map[c]] # None}
         IN [c \in keys |-> row[column_order_map[c]]]

\* lines 606-619: one (Document, distance) pair per result row, in result order
RowToDocument(st, column_order_map, row) ==
    [doc |-> [page_content |-> row[column_order_map[st.content_column]][2],
              metadata |-> RowToMetadata(st, column_order_map, row)],
     score |-> row[column_order_map[DISTANCE_SELECT_QUERY_NAME]]]

\* lines 607-615: a result row whose reading looks up the position of a
\* column that column_order_map does not hold (KeyError)
RowRaises(st, column_order_map, row) ==
    \/ st.content_column \notin DOMAIN column_order_map
    \/ /\ st.metadata_json_column # NoColumn
       /\ st.metadata_json_column \notin DOMAIN column_order_map
    \/ /\ \/ st.metadata_json_column = NoColumn
          \/ ~Truthy(row[column_order_map[st.metadata_json_column]])
       /\ \E i \in 1..Len(st.metadata_columns) :
             st.metadata_columns[i] \notin DOMAIN column_order_map

similarity_search_with_score_by_vector(st, query, embedding, order) ==
    LET column_order_map == ColumnOrderMap(st)
        results == execute_sql(query, embedding, order)
    IN IF \E i \in 1..Len(results) : RowRaises(st, column_order_map, results[i])
       THEN Raise("KeyError")
       ELSE Return([i \in 1..Len(results) |->
                      RowToDocument(st, column_order_map, results[i])])

\* ------------------------------------------------------------------ delete
Kw(w) == <<"kw", w>>
Sym(c) == <<"sym", c>>
Ident(n) == <<"ident", n>>
Lit(v) == <<"lit", v>>

\* sep.join(parts), on token sequences
RECURSIVE Join(_, _)
Join(parts, sep) ==
    IF parts = <<>> THEN <<>>
    ELSE IF Len(parts) = 1 THEN parts[1]
    ELSE parts[1] \o <<sep>> \o Join(Tail(parts), sep)

\* line 504: '(\'' + value + '\')'
DeleteValues(ids) == [i \in 1..Len(ids) |-> <<Sym("("), Lit(ids[i]), Sym(")")>>]

\* line 531: ', '.join([f'({elem})' for elem in values])
StructPlaceholder(values) ==
    Join([i \in 1..Len(values) |-> <<Sym("(")>> \o values[i] \o <<Sym(")")>>], Sym(","))

\* lines 523-532: the DELETE statement
DeleteQuery(st, columns, values) ==
    <<Kw("DELETE FROM"), Ident(st.table_name), Kw("WHERE"), Sym("(")>>
      \o Join([i \in 1..Len(columns) |-> <<Ident(columns[i])>>], Sym(","))
      \o <<Sym(")"), Kw("IN")>>
      \o StructPlaceholder(values)

\* The engine's reading of a DELETE ... WHERE (col) IN (...) statement: the
\* part after IN must be one parenthesised, non-empty list.
Depth(toks, i) ==
    Cardinality({j \in 1..i : toks[j] = Sym("(")})
      - Cardinality({j \in 1..i : toks[j] = Sym(")")})
InList(stmt) ==
    LET p == CHOOSE i \in 1..Len(stmt) : stmt[i] = Kw("IN")
    IN SubSeq(stmt, p + 1, Len(stmt))
WellFormedDelete(stmt) ==
    LET l == InList(stmt)
    IN /\ Len(stmt) >= 7
       /\ stmt[4] = Sym("(") /\ stmt[5][1] = "ident" /\ stmt[6] = Sym(")")
       /\ stmt[7] = Kw("IN")
       /\ Len(l) >= 3
       /\ l[1] = Sym("(")
       /\ \A i \in 1..(Len(l) - 1) : Depth(l, i) >= 1
       /\ Depth(l, Len(l)) = 0
       /\ \E i \in 1..Len(l) : l[i][1] = "lit"
execute_update(tbl, stmt) ==
    IF WellFormedDelete(stmt)
    THEN [ok |-> TRUE,
          table |-> {r \in tbl : ~\E i \in 1..Len(stmt) :
                                    stmt[i] = Lit(r[stmt[5][2]][2])}]
    ELSE [ok |-> FALSE, table |-> tbl]

\* lines 496-544, the whole handler
delete(st, tbl, ids, documents) ==
    IF IsNone(ids) /\ IsNone(documents)
    THEN [table |-> tbl, statements |-> <<>>,
          result |-> Raise("Exception: Pass id/documents to delete")]
    ELSE LET columns == IF ~IsNone(ids) THEN <<st.id_column>> ELSE <<>>
             values == IF ~IsNone(ids) THEN DeleteValues(Val(ids)) ELSE <<>>
             sql_query == DeleteQuery(st, columns, values)
             r == execute_update(tbl, sql_query)
         IN [table |-> r.table,
             statements |-> <<sql_query>>,
             result |-> IF r.ok THEN Return(TRUE) ELSE Raise("InvalidArgument")]

\* ------------------------------------------------------------------- state
VARIABLES store, table, uuid, last
vars == <<store, table, uuid, last>>

NoCall == [op |-> "none"]

\* The stores the constructor builds: with and without individual metadata
\* columns, with and without the JSON column, in either dialect.
StoreConfigs ==
    {SpannerVectorStore_init(mc, Nothing, js, QueryParameters(q[1], 0), q[2]) :
        mc \in {Nothing, Some(<<"a">>)},
        js \in {NoColumn, ADDITIONAL_METADATA_COLUMN_NAME},
        q \in {<<"EUCLIDEIAN", "GOOGLE_STANDARD_SQL">>, <<"COSINE", "POSTGRESQL">>}}

Init ==
    /\ store \in StoreConfigs
    /\ table = {}
    /\ uuid = 0
    /\ last = NoCall

NumChunks(n, b) == (n + b - 1) \div b
Lengths(n) == {n, (n + 1) % (MaxTexts + 1)}

\* An ingestion is explored from the empty table (rows leave it by delete
\* only), which keeps the table within MaxTexts rows.
AddTexts ==
    \E n \in 0..MaxTexts :
      /\ table = {}
      /\ \E ids \in {Nothing} \cup {Some(IdsOf(l)) : l \in Lengths(n)},
            metadatas \in {Nothing} \cup {Some(MetasOf(l)) : l \in Lengths(n)},
            batch_size \in 1..MaxBatch :
          \E failAt \in -1..(NumChunks(n, batch_size) - 1) :
            \E r \in {add_texts(store, table, uuid, TextsOf(n), metadatas, ids,
                                 batch_size, failAt)} :
               /\ table' = r.table
               /\ uuid' = r.uuid
               /\ last' = [op |-> "add_texts",
                           texts |-> TextsOf(n),
                           metadatas |-> metadatas,
                           ids |-> ids,
                           batch_size |-> batch_size,
                           before |-> table,
                           embed_calls |-> r.embed_calls,
                           writes |-> r.writes,
                           metadatas_after |-> r.metadatas_after,
                           result |-> r.result]
               /\ UNCHANGED store

\* a strong read whatever the configuration says
Staleness_strong(st) == timedelta(0)

\* lines 562-563: the staleness of the read, from the store's configuration
Staleness(st) == timedelta(st.query_parameters.staleness)

\* line 596: database.snapshot(exact_staleness=...). A zero timedelta is a
\* strong read of the table as it is; otherwise the read sees the table as it
\* was that long ago, which is the present table or an earlier version of it
\* (the table before the last write, or the empty table it began as).
Snapshots(exact_staleness, tbl, lst) ==
    IF TotalSeconds(exact_staleness) = 0 THEN {tbl}
    ELSE {tbl, {}} \cup (IF lst.op \in {"add_texts", "delete"} THEN {lst.before} ELSE {})

Search ==
    \E embedding \in QueryEmbeddings, k \in 1..MaxK,
       pre_filter \in {Nothing, Some("a IS NOT NULL")},
       snapshot \in Snapshots(Staleness(store), table, last) :
      LET query == SearchQuery(store, k, pre_filter)
      IN \E order \in EngineOrders(query, embedding, snapshot) :
         \E r \in {similarity_search_with_score_by_vector(store, query, embedding,
                                                           order)} :
           /\ last' = [op |-> "search",
                       rows |-> execute_sql(query, embedding, order),
                       embedding |-> embedding,
                       k |-> k,
                       pre_filter |-> pre_filter,
                       query |-> query,
                       params |-> [name |-> Parameter(store.dialect)[2],
                                   value |-> embedding],
                       exact_staleness |-> Staleness(store),
                       snapshot |-> snapshot,
                       documents |-> IF r.kind = "return" THEN r.value ELSE <<>>,
                       result |-> r]
           /\ UNCHANGED <<store, table, uuid>>

Delete ==
    \E ids \in {Nothing} \cup {Some(IdsOf(l)) : l \in 0..MaxTexts},
       documents \in {Nothing, Some(<<>>), Some(<<"doc">>)} :
      \E r \in {delete(store, table, ids, documents)} :
         /\ table' = r.table
         /\ last' = [op |-> "delete",
                     ids |-> ids,
                     documents |-> documents,
                     before |-> table,
                     statements |-> r.statements,
                     result |-> r.result]
         /\ UNCHANGED <<store, uuid>>

Next == AddTexts \/ Search \/ Delete

Spec == Init /\ [][Next]_vars

\* ------------------------------------------------- query configurations
\* line 292: the query_parameters a store gets when the caller passes none
DefaultQueryParameters == QueryParameters("EUCLIDEIAN", 0)

\* Stores with the query parameters a caller can pass: distance_strategy is
\* not checked against the enum (lines 137-153), so any value gets in; here
\* one that is no member of DistanceStrategy. staleness is strong or 15 s.
QueryConfigs ==
    {SpannerVectorStore_init(Nothing, Nothing, NoColumn, qp, d) :
        qp \in {DefaultQueryParameters}
               \cup {QueryParameters(ds, 15) :
                       ds \in DistanceStrategies \cup {"MAX_INNER_PRODUCT"}},
        d \in Dialects}

InitQuery ==
    /\ store \in QueryConfigs
    /\ table = {}
    /\ uuid = 0
    /\ last = NoCall

SpecQuery == InitQuery /\ [][Next]_vars

\* ------------------------------------------- column-set configurations
\* Stores over every combination of metadata_columns, ignore_metadata_columns
\* and metadata_json_column; _validate_table_schema (lines 370-373) checks
\* nothing, so the constructor builds them all.
ColumnConfigs ==
    {SpannerVectorStore_init(mc, ig, js, DefaultQueryParameters, "GOOGLE_STANDARD_SQL") :
        mc \in {Nothing, Some(<<"a">>)},
        ig \in {Nothing, Some(<<>>), Some(<<"a">>),
                Some(<<ADDITIONAL_METADATA_COLUMN_NAME>>), Some(<<CONTENT_COLUMN_NAME>>)},
        js \in {NoColumn, ADDITIONAL_METADATA_COLUMN_NAME}}

InitColumns ==
    /\ store \in ColumnConfigs
    /\ table = {}
    /\ uuid = 0
    /\ last = NoCall

SpecColumns == InitColumns /\ [][Next]_vars

\* ---------------------------------------------------------- table creation
\* A str is held as its pieces: literal text is cut so that the separator
\* "," and the line break "\n" are pieces of their own, and a formatted
\* argument is one piece (none when it is the empty string).

RECURSIVE RStrip(_), ColumnsSql(_), SplitLines(_, _)

\* f"{value}": the text of a formatted argument (None renders as "None")
Format(v) == IF v = None THEN <<"None">> ELSE IF v[2] = "" THEN <<>> ELSE <<v[2]>>

\* lines 72-78: TableColumn.__post_init__ rejects a name or type that is None
TableColumn(name, type, is_null) ==
    IF name = None THEN Raise("ValueError")
    ELSE IF type = None THEN Raise("ValueError")
    ELSE Return([name |-> name, type |-> type, is_null |-> is_null])

\* str.rstrip(",\n") without the trimming
RStrip_keep(sql) == sql

\* line 275: str.rstrip(",\n") drops every trailing "," and "\n"
RStrip(sql) ==
    IF sql # <<>> /\ sql[Len(sql)] \in {",", "\n"}
    THEN RStrip(SubSeq(sql, 1, Len(sql) - 1))
    ELSE sql

\* lines 261-270: the declaration of one extra column
ColumnSql(column_config) ==
    <<"  ">> \o Format(column_config.name) \o <<" ">> \o Format(column_config.type)
        \o (IF ~column_config.is_null THEN <<" NOT NULL">> ELSE <<>>)
        \o <<",", "\n">>

\* lines 259-271: the declarations of the extra columns, in the caller's order
ColumnsSql(column_configs) ==
    IF column_configs = <<>> THEN <<>>
    ELSE ColumnSql(Head(column_configs)) \o ColumnsSql(Tail(column_configs))

\* lines 217-277: the CREATE TABLE statement (str + None is a TypeError)
generate_sql(dialect, table_name, id_column, content_column, embedding_column, column_configs) ==
    LET head == <<"CREATE TABLE ">> \o Format(table_name) \o <<" (", "\n">>
        base == IF dialect = "POSTGRESQL"
                THEN <<"  ">> \o Format(id_column)
                        \o <<" ", "varchar(36) DEFAULT (spanner.generate_uuid())", ",", "\n">>
                        \o <<"  ">> \o Format(content_column) \o <<" ", "text", ",", "\n">>
                        \o <<"  ">> \o Format(embedding_column) \o <<" ", "float8[]", ",", "\n">>
                ELSE <<"  ">> \o Format(id_column)
                        \o <<" ", "STRING(36) DEFAULT (GENERATE_UUID())", ",", "\n">>
                        \o <<"  ">> \o Format(content_column) \o <<" ", "STRING(MAX)", ",", "\n">>
                        \o <<"  ">> \o Format(embedding_column) \o <<" ", "ARRAY<FLOAT64>", ",", "\n">>
        extra == IF ~IsNone(column_configs) THEN ColumnsSql(Val(column_configs)) ELSE <<>>
        sql == head \o base \o extra
    IN IF id_column = None THEN Raise("TypeError")
       ELSE IF dialect = "POSTGRESQL"
       THEN Return(sql \o <<"  PRIMARY KEY(">> \o Format(id_column) \o <<")", "\n", ")">>)
       ELSE Return(RStrip(sql) \o <<"\n", ") PRIMARY KEY(">> \o Format(id_column) \o <<")">>)

\* The lines of a statement: its pieces between the line breaks.
SplitLines(sql, line) ==
    IF sql = <<>> THEN <<line>>
    ELSE IF Head(sql) = "\n" THEN <<line>> \o SplitLines(Tail(sql), <<>>)
    ELSE SplitLines(Tail(sql), Append(line, Head(sql)))

\* A line that declares a column: indentation, name, blank, type, an optional
\* NOT NULL, an optional separator.
IsWord(p) == p \notin {"  ", " ", ",", " NOT NULL"}
DeclBody(line) ==
    IF line # <<>> /\ line[Len(line)] = "," THEN SubSeq(line, 1, Len(line) - 1) ELSE line
IsDeclaration(line) ==
    LET d == DeclBody(line)
    IN /\ Len(d) \in {4, 5}
       /\ d[1] = "  " /\ IsWord(d[2]) /\ d[3] = " " /\ IsWord(d[4])
       /\ Len(d) = 5 => d[5] = " NOT NULL"
Declaration(line) ==
    LET d == DeclBody(line)
    IN [name |-> d[2], type |-> d[4], not_null |-> Len(d) = 5,
        separator |-> line[Len(line)] = ","]

\* The database's reading of a CREATE TABLE statement (blank lines do not
\* count): the declared columns in order, the primary key and where it
\* stands, and whether a separator follows the last declaration. A statement
\* of another shape does not parse.
IsKeyClause(line, opening) ==
    Len(line) = 3 /\ line[1] = opening /\ IsWord(line[2]) /\ line[3] = ")"
NonBlank(line) == line # <<>>
ParseCreateTable(sql) ==
    LET lines == SelectSeq(SplitLines(sql, <<>>), NonBlank)
        n == Len(lines)
        in_body == n >= 3 /\ lines[n] = <<")">> /\ IsKeyClause(lines[n - 1], "  PRIMARY KEY(")
        after_body == n >= 2 /\ IsKeyClause(lines[n], ") PRIMARY KEY(")
        last_decl == IF in_body THEN n - 2 ELSE n - 1
        decls == [i \in 1..(last_decl - 1) |-> Declaration(lines[i + 1])]
        ok == /\ in_body \/ after_body
              /\ last_decl >= 2
              /\ Len(lines[1]) = 3 /\ lines[1][1] = "CREATE TABLE " /\ lines[1][3] = " ("
              /\ \A i \in 2..last_decl : IsDeclaration(lines[i])
              /\ \A i \in 1..(last_decl - 2) : decls[i].separator
    IN IF ~ok THEN [ok |-> FALSE]
       ELSE [ok |-> TRUE,
             table |-> lines[1][2],
             columns |-> [i \in 1..(last_decl - 1) |->
                            [name |-> decls[i].name, type |-> decls[i].type,
                             not_null |-> decls[i].not_null]],
             trailing_separator |-> decls[last_decl - 1].separator,
             primary_key |-> IF in_body THEN lines[n - 1][2] ELSE lines[n][2],
             key_place |-> IF in_body THEN "in-body" ELSE "after-body"]

\* A PostgreSQL-dialect database takes the key as a constraint in the body, a
\* GoogleSQL one as a clause after it.
Accepts(dialect, sql) ==
    LET p == ParseCreateTable(sql)
    IN /\ p.ok
       /\ p.key_place = (IF dialect = "POSTGRESQL" THEN "in-body" ELSE "after-body")

\* lines 187-214: init_vector_store_table, with the calls it makes to the
\* storage service in order, and the statement it submitted if it got there
init_vector_store_table(database, table_name, id_column, metadata_columns) ==
    IF ~database.instance_exists
    THEN [calls |-> <<"instance.exists">>, ddl |-> Nothing,
          result |-> Raise("Exception: Instance doesn't exist")]
    ELSE IF ~database.database_exists
    THEN [calls |-> <<"instance.exists", "database.exists">>, ddl |-> Nothing,
          result |-> Raise("Exception: Database doesn't exist")]
    ELSE LET checks == <<"instance.exists", "database.exists", "database.reload">>
             ddl == generate_sql(database.database_dialect, table_name, id_column,
                                 Str(CONTENT_COLUMN_NAME), Str(EMBEDDING_COLUMN_NAME),
                                 metadata_columns)
         IN IF ddl.kind = "raise"
            THEN [calls |-> checks, ddl |-> Nothing, result |-> ddl]
            ELSE IF ~Accepts(database.database_dialect, ddl.value)
            THEN [calls |-> Append(checks, "database.update_ddl"),
                  ddl |-> Some(ddl.value), result |-> Raise("InvalidArgument")]
            ELSE [calls |-> checks \o <<"database.update_ddl", "operation.result">>,
                  ddl |-> Some(ddl.value), result |-> Return(None)]

\* The databases a table is created in.
Databases ==
    {[instance_exists |-> TRUE, database_exists |-> TRUE, database_dialect |-> d] :
        d \in Dialects}
    \cup {[instance_exists |-> e[1], database_exists |-> e[2],
           database_dialect |-> "GOOGLE_STANDARD_SQL"] :
            e \in {<<FALSE, TRUE>>, <<TRUE, FALSE>>}}

\* The extra columns a caller asks for: TableColumn(name, type, is_null).
ColumnArgs ==
    {<<Str("x"), Str("INT64"), b>> : b \in BOOLEAN}
    \cup {<<Str("y"), Str("JSON"), b>> : b \in BOOLEAN}
    \cup {<<Str("x"), Str(""), TRUE>>, <<Str("y"), None, TRUE>>,
          <<None, Str("INT64"), TRUE>>}
ColumnLists == UNION {[1..m -> ColumnArgs] : m \in 0..MaxColumns}
IdColumns == {Str(ID_COLUMN_NAME), Str(""), None}

InitTable ==
    /\ store \in Databases
    /\ table = {}
    /\ uuid = 0
    /\ last = NoCall

\* The caller builds the TableColumn objects, then calls
\* init_vector_store_table with them; the first TableColumn that raises ends
\* the program before the call. The call keeps no state of its own, so one
\* call per behaviour covers it.
CreateTable ==
    \E id_column \in IdColumns,
       args \in {Nothing} \cup {Some(l) : l \in ColumnLists} :
      LET built == IF IsNone(args) THEN <<>>
                   ELSE [i \in 1..Len(Val(args)) |->
                            TableColumn(Val(args)[i][1], Val(args)[i][2], Val(args)[i][3])]
          raised == \E i \in 1..Len(built) : built[i].kind = "raise"
          metadata_columns == IF IsNone(args) THEN Nothing
                              ELSE Some([i \in 1..Len(built) |-> built[i].value])
      IN /\ last = NoCall
         /\ last' = IF raised
                    THEN [op |-> "init_vector_store_table", id_column |-> id_column,
                          columns |-> args, calls |-> <<>>, ddl |-> Nothing,
                          result |-> Raise("ValueError")]
                    ELSE LET r == init_vector_store_table(store, Str("t"), id_column,
                                                          metadata_columns)
                         IN [op |-> "init_vector_store_table", id_column |-> id_column,
                             columns |-> args, calls |-> r.calls, ddl |-> r.ddl,
                             result |-> r.result]
         /\ UNCHANGED <<store, table, uuid>>

NextTable == CreateTable

SpecTable == InitTable /\ [][NextTable]_vars

\* ================================================================== claims
\* helpers of the claims about the last add_texts call
Ceil(n, b) == CHOOSE c \in 0..n : c * b >= n /\ (c - 1) * b < n
WrittenRows ==
    Concat([j \in 1..Len(last.writes) |->
              [i \in 1..Len(last.writes[j].values) |->
                 [columns |-> last.writes[j].columns,
                  values |-> last.writes[j].values[i]]]])
MetadataOf(i) == IF IsNone(last.metadatas) THEN EmptyDict ELSE Val(last.metadatas)[i]
ValueAt(w, c) == w.values[IndexOf(c, w.columns)]
\* the written row w carries record i of the call
Carries(w, i) ==
    /\ InSeq(store.content_column, w.columns)
    /\ ValueAt(w, store.content_column) = Str(last.texts[i])
    /\ InSeq(store.embedding_column, w.columns)
    /\ ValueAt(w, store.embedding_column) = Vec(Embed(last.texts[i]))
    /\ (~IsNone(last.ids) =>
          /\ InSeq(store.id_column, w.columns)
          /\ ValueAt(w, store.id_column) = Str(Val(last.ids)[i]))
    /\ \A j \in 1..Len(store.metadata_columns) :
          LET c == store.metadata_columns[j]
          IN /\ InSeq(c, w.columns)
             /\ ValueAt(w, c) = IF c = store.metadata_json_column
                                THEN JsonObject(MetadataOf(i))
                                ELSE Get(MetadataOf(i), c)
AddTextsSucceeded ==
    /\ last.op = "add_texts"
    /\ Len(last.texts) >= 1
    /\ last.result.kind = "return"

\* C1: an add_texts call with N >= 1 texts and batch size B in which no write
\* fails issues exactly ceil(N/B) batch writes of at most B rows each, and the
\* rows of the successive writes, concatenated, are the input records in
\* their original order.
C1_Batching ==
    AddTextsSucceeded =>
      /\ Len(last.writes) = Ceil(Len(last.texts), last.batch_size)
      /\ \A j \in 1..Len(last.writes) :
            /\ last.writes[j].ok
            /\ Len(last.writes[j].values) >= 1
            /\ Len(last.writes[j].values) <= last.batch_size
      /\ Len(WrittenRows) = Len(last.texts)
      /\ \A i \in 1..Len(WrittenRows) : Carries(WrittenRows[i], i)

C1_Witness ==
    /\ AddTextsSucceeded
    /\ Len(last.texts) = 3 /\ last.batch_size = 2 /\ Len(last.writes) = 2
    /\ ~IsNone(last.ids) /\ ~IsNone(last.metadatas)
    /\ store.metadata_json_column # NoColumn
    /\ Cardinality(table) = 3

LengthMismatch ==
    \/ ~IsNone(last.ids) /\ Len(Val(last.ids)) # Len(last.texts)
    \/ ~IsNone(last.metadatas) /\ Len(Val(last.metadatas)) # Len(last.texts)
NothingIssued ==
    /\ last.embed_calls = 0
    /\ last.writes = <<>>
    /\ table = last.before

\* C2 as stated: whatever the number of texts, zero included, a call whose ids
\* or metadatas has another length than the texts fails with a validation
\* error before any embedding call or write.
C2_Original ==
    (last.op = "add_texts" /\ LengthMismatch) =>
      /\ last.result.kind = "raise"
      /\ last.result.error.type = "AssertionError"
      /\ NothingIssued

\* C2 amended: with at least one text such a call fails with the validation
\* error; with no text it returns the empty list; in both cases no embedding
\* call and no write has been issued.
C2_Validation ==
    (last.op = "add_texts" /\ LengthMismatch) =>
      /\ NothingIssued
      /\ (Len(last.texts) >= 1 =>
            /\ last.result.kind = "raise"
            /\ last.result.error.type = "AssertionError")
      /\ (Len(last.texts) = 0 => last.result = Return(<<>>))

C2_Witness ==
    /\ last.op = "add_texts"
    /\ Len(last.texts) = 2
    /\ IsNone(last.ids)
    /\ ~IsNone(last.metadatas) /\ Len(Val(last.metadatas)) = 3
    /\ last.result.kind = "raise"

\* C3: when the write of chunk j fails, the chunks before j stay committed
\* and are written once, no chunk after j is written, and the caller gets a
\* partial-failure error that identifies the offset of the failed chunk.
C3_PartialFailure ==
    (last.op = "add_texts" /\ \E j \in 1..Len(last.writes) : ~last.writes[j].ok) =>
      LET f == Len(last.writes)
      IN /\ \A j \in 1..(f - 1) : last.writes[j].ok
         /\ ~last.writes[f].ok
         /\ \A i \in 1..Len(WrittenRows) : Carries(WrittenRows[i], i)
         /\ Cardinality(table) = Cardinality(last.before) + (f - 1) * last.batch_size
         /\ last.result.kind = "raise"
         /\ last.result.error.type = "PartialFailureError"
         /\ "offset" \in DOMAIN last.result.error
         /\ last.result.error.offset = (f - 1) * last.batch_size

\* the Document a search builds from a stored row: the engine projects the
\* row on the select list and appends the distance
SelectedRow(st, r) ==
    [j \in 1..(Len(st.columns_to_insert) + 1) |->
        IF j <= Len(st.columns_to_insert) THEN r[st.columns_to_insert[j]] ELSE 0]
ReadBack(st, r) == RowToDocument(st, ColumnOrderMap(st), SelectedRow(st, r)).doc
StoredRecord(i) == CHOOSE r \in table : r[store.content_column] = Str(last.texts[i])
ColumnSet(cols) == {cols[i] : i \in 1..Len(cols)}

\* C4: for every store configuration and every record whose metadata keys
\* are among the configured metadata columns, reading back the row add_texts
\* stored for it gives a Document with the record's content and a metadata
\* mapping equal to the record's metadata.
C4_MapperRoundTrip ==
    AddTextsSucceeded =>
      \A i \in 1..Len(last.texts) :
        (DOMAIN MetadataOf(i) \subseteq ColumnSet(store.metadata_columns)) =>
          /\ ReadBack(store, StoredRecord(i)).page_content = last.texts[i]
          /\ ReadBack(store, StoredRecord(i)).metadata = MetadataOf(i)

\* the value record i of the call has for column c
RecordValue(c, i) ==
    IF c = store.content_column THEN Str(last.texts[i])
    ELSE IF c = store.embedding_column THEN Vec(Embed(last.texts[i]))
    ELSE IF c = store.id_column THEN Str(Val(last.ids)[i])
    ELSE IF c = store.metadata_json_column THEN JsonObject(MetadataOf(i))
    ELSE Get(MetadataOf(i), c)
InsertColumns ==
    store.metadata_columns
      \o (IF IsNone(last.ids) THEN <<>> ELSE <<store.id_column>>)
      \o <<store.content_column, store.embedding_column>>

C6_CatchAllPrecedence ==
    (last.op = "search" /\ store.metadata_json_column # NoColumn) =>
      \A i \in 1..Len(last.rows) :
        LET row == last.rows[i]
            pos(c) == IndexOf(c, last.query.select)
            v == row[pos(store.metadata_json_column)]
            present == {c \in ColumnSet(store.metadata_columns) : row[pos(c)] # None}
        IN IF v # None
           THEN last.documents[i].doc.metadata = v[2]
           ELSE last.documents[i].doc.metadata = [c \in present |-> row[pos(c)]]

\* the statement the specification gives for delete by ids
ExpectedDelete(st, ids) ==
    <<Kw("DELETE FROM"), Ident(st.table_name), Kw("WHERE"),
      Sym("("), Ident(st.id_column), Sym(")"), Kw("IN"), Sym("(")>>
      \o Join([i \in 1..Len(ids) |-> <<Sym("("), Lit(ids[i]), Sym(")")>>], Sym(","))
      \o <<Sym(")")>>

\* C7: delete with one, two or more ids executes, in one transaction, the one
\* statement DELETE FROM <table> WHERE (<idColumn>) IN ((id1), (id2), ...),
\* all the ids inside one IN list.
C7_DeleteStatement ==
    (last.op = "delete" /\ ~IsNone(last.ids) /\ Len(Val(last.ids)) >= 1) =>
      last.statements = <<ExpectedDelete(store, Val(last.ids))>>

\* C8: delete with an empty id list and no documents fails with a validation
\* error, and no statement is built or executed.
C8_EmptyIdsRejected ==
    (last.op = "delete" /\ ~IsNone(last.ids) /\ Val(last.ids) = <<>>
       /\ IsNone(last.documents)) =>
      /\ last.result.kind = "raise"
      /\ last.statements = <<>>

\* C9: delete with documents and no ids raises an unsupported-operation
\* error: it does not return success and executes no statement.
C9_DeleteByDocumentsUnsupported ==
    (last.op = "delete" /\ IsNone(last.ids) /\ ~IsNone(last.documents)) =>
      /\ last.result.kind = "raise"
      /\ last.result.error.type = "NotImplementedError"
      /\ last.statements = <<>>

\* the distance of the store's strategy between two vectors of one dimension
StrategyDistance(x, q) ==
    IF store.query_parameters.distance_strategy = "COSINE"
    THEN (IF x * q > 0 THEN 0 ELSE 2)
    ELSE (IF x >= q THEN x - q ELSE q - x)
Satisfying ==
    {r \in last.snapshot :
       IsNone(last.pre_filter) \/ EvalFilter(Val(last.pre_filter), r)}
DistanceOf(r) == StrategyDistance(r[store.embedding_column][2], last.embedding)

\* C10: a search returns min(k, number of rows satisfying the filter) pairs,
\* so at most k, in ascending order of distance to the query vector, and they
\* are nearest ones: each is a distinct satisfying row with its distance, and
\* no satisfying row left out is nearer than a returned one.
C10_NearestFirst ==
    last.op = "search" =>
      LET docs == last.documents
          n == Len(docs)
      IN /\ n <= last.k
         /\ n = Min(last.k, Cardinality(Satisfying))
         /\ \A i \in 1..(n - 1) : docs[i].score <= docs[i + 1].score
         /\ \E pick \in [1..n -> Satisfying] :
              /\ \A i, j \in 1..n : pick[i] = pick[j] => i = j
              /\ \A i \in 1..n :
                   /\ pick[i][store.content_column] = Str(docs[i].doc.page_content)
                   /\ docs[i].score = DistanceOf(pick[i])
              /\ \A r \in Satisfying :
                   (\A i \in 1..n : pick[i] # r) =>
                     \A i \in 1..n : docs[i].score <= DistanceOf(r)

C10_Witness ==
    /\ last.op = "search"
    /\ store.query_parameters.distance_strategy = "EUCLIDEIAN"
    /\ IsNone(last.pre_filter)
    /\ Cardinality(last.snapshot) = 3
    /\ {DistanceOf(r) : r \in last.snapshot} = {0, 1, 2}
    /\ last.k = 2
    /\ Len(last.documents) = 2
    /\ last.documents[1].score = 0
    /\ last.documents[2].score = 1

\* ---------------------------------------------------------------------
\* C11: a table creation whose id column is empty or unset, or one of whose
\* extra columns has an empty or unset SQL type, fails with an error before
\* any statement is assembled and before any call to the storage service.
Unset(v) == v = None \/ v = Str("")
BadConfiguration ==
    \/ Unset(last.id_column)
    \/ /\ ~IsNone(last.columns)
       /\ \E i \in 1..Len(Val(last.columns)) : Unset(Val(last.columns)[i][2])
C11_ConfigurationRejected ==
    (last.op = "init_vector_store_table" /\ BadConfiguration)
        => /\ last.result.kind = "raise"
           /\ last.calls = <<>>
           /\ last.ddl = Nothing

\* ---------------------------------------------------------------------
\* C12: in both dialects and for every list of extra columns (none included),
\* the CREATE TABLE statement declares exactly the id, content and embedding
\* columns and then each extra column in the caller's order, with NOT NULL on
\* exactly the extra columns that are not nullable, and the primary key on
\* the id column: as a constraint in the body before the closing parenthesis
\* for POSTGRESQL, as a clause after the closing parenthesis and with no
\* separator left behind the last column for GOOGLE_SQL.
Named(v) == v # None /\ v # Str("")
ValidTableArgs ==
    /\ Named(last.id_column)
    /\ ~IsNone(last.columns) =>
         \A i \in 1..Len(Val(last.columns)) :
            Named(Val(last.columns)[i][1]) /\ Named(Val(last.columns)[i][2])
BaseTypes ==
    IF store.database_dialect = "POSTGRESQL"
    THEN <<"varchar(36) DEFAULT (spanner.generate_uuid())", "text", "float8[]">>
    ELSE <<"STRING(36) DEFAULT (GENERATE_UUID())", "STRING(MAX)", "ARRAY<FLOAT64>">>
ExpectedColumns ==
    LET names == <<last.id_column[2], CONTENT_COLUMN_NAME, EMBEDDING_COLUMN_NAME>>
        extras == IF IsNone(last.columns) THEN <<>> ELSE Val(last.columns)
    IN [i \in 1..3 |-> [name |-> names[i], type |-> BaseTypes[i], not_null |-> FALSE]]
       \o [i \in 1..Len(extras) |->
            [name |-> extras[i][1][2], type |-> extras[i][2][2],
             not_null |-> ~extras[i][3]]]
TableRequested ==
    /\ last.op = "init_vector_store_table"
    /\ store.instance_exists /\ store.database_exists
    /\ ValidTableArgs
C12_CreateTableStatement ==
    TableRequested =>
        /\ ~IsNone(last.ddl)
        /\ LET p == ParseCreateTable(Val(last.ddl))
           IN /\ p.ok
              /\ p.table = "t"
              /\ p.columns = ExpectedColumns
              /\ p.primary_key = last.id_column[2]
              /\ IF store.database_dialect = "POSTGRESQL"
                 THEN p.key_place = "in-body"
                 ELSE p.key_place = "after-body" /\ ~p.trailing_separator
        /\ last.result = Return(None)
\* a GoogleSQL table with two extra columns, the first of them NOT NULL: its
\* statement was submitted and accepted
C12_Witness ==
    /\ TableRequested
    /\ store.database_dialect = "GOOGLE_STANDARD_SQL"
    /\ last.columns = Some(<<<<Str("y"), Str("JSON"), FALSE>>,
                             <<Str("x"), Str("INT64"), TRUE>>>>)
    /\ last.calls = <<"instance.exists", "database.exists", "database.reload",
                      "database.update_ddl", "operation.result">>
    /\ last.result = Return(None)

\* ---------------------------------------------------------------------
\* C13: a store configured with a distance strategy that is neither COSINE
\* nor EUCLIDEAN fails at configuration time: no search runs under an unknown
\* strategy, and none falls back to some distance function silently.
C13_UnknownStrategyRejected ==
    last.op = "search" =>
        store.query_parameters.distance_strategy \in DistanceStrategies

\* ---------------------------------------------------------------------
\* C14: every search reads with the staleness the store was configured with
\* at construction (0, a strong read, when none was given), and the staleness
\* used does not vary between the calls of a store.
C14_Staleness ==
    [][/\ store' = store
       /\ last'.op = "search" =>
            /\ TotalSeconds(last'.exact_staleness) = store.query_parameters.staleness
            /\ store.query_parameters = DefaultQueryParameters =>
                 /\ TotalSeconds(last'.exact_staleness) = 0
                 /\ last'.snapshot = table
            /\ last.op = "search" => last'.exact_staleness = last.exact_staleness]_vars
\* a search of a store configured with 15 s that read a version of the table
\* older than the present one
C14_Witness ==
    /\ last.op = "search"
    /\ store.query_parameters.staleness = 15
    /\ TotalSeconds(last.exact_staleness) = 15
    /\ last.snapshot # table

\* ---------------------------------------------------------------------
\* C15: add_texts leaves the metadata mappings the caller passed in as they
\* were, so that ingesting the same documents a second time writes the same
\* metadata values, the JSON value of the catch-all column included.
SecondIngestion ==
    add_texts(store, {}, 0, last.texts, last.metadatas_after, last.ids,
              last.batch_size, -1)
C15_CallerMetadataUnchanged ==
    (last.op = "add_texts" /\ ~IsNone(last.metadatas)) =>
        /\ last.metadatas_after = last.metadatas
        /\ AddTextsSucceeded => SecondIngestion.writes = last.writes

\* ---------------------------------------------------------------------
\* C16: for every store the constructor builds, whatever the combination of
\* metadata_columns, ignore_metadata_columns and metadata_json_column, every
\* column whose position a search looks up (the content column, the JSON
\* column when configured, each metadata column) is in the select list, so
\* a search that gets result rows never fails on the position of a missing
\* column.
ReadColumns ==
    {store.content_column}
    \cup (IF store.metadata_json_column # NoColumn
          THEN {store.metadata_json_column} ELSE {})
    \cup {store.metadata_columns[i] : i \in 1..Len(store.metadata_columns)}
C16_ReadColumnsSelected ==
    (last.op = "search" /\ last.rows # <<>>) =>
        /\ ReadColumns \subseteq ColumnSet(last.query.select)
        /\ last.result.kind = "return"

====
